---- MODULE Spec2Model ----
(***************************************************************************)
(* A model of zeroinstall/injector/policy.py: the Policy object, its       *)
(* staleness test, its off-line gate, the deprecated one-pass recalculate  *)
(* and the solve_with_downloads coroutine.  The solver, the fetcher, the   *)
(* interface cache and the task scheduler are the environment.             *)
(***************************************************************************)
EXTENDS Integers, Sequences, FiniteSets, TLC

(* ------------------------------------------------------------------ *)
(* Values                                                             *)
(* ------------------------------------------------------------------ *)

\* Python's None and a present value: an optional is a tuple of length 0 or 1.
None == <<>>
Some(x) == <<x>>

\* Python truth of an optional number: None and 0 are both false.
Truthy(opt) == opt # None /\ opt[1] # 0

\* Python's  x or 0  on an optional number.
OrZero(opt) == IF Truthy(opt) THEN opt[1] ELSE 0

\* A URL is the sequence of its characters (shortened to two).
LocalFeed == <<"/", "l">>
FeedA == <<"h", "a">>
injector_gui_uri == <<"h", "g">>

RemoteFeeds == {FeedA, injector_gui_uri}
Feeds == RemoteFeeds \cup {LocalFeed}

\* No string is taken to start with the prefix.
startswith_Never(s, c) == FALSE

\* str.startswith with a one-character prefix.
startswith(s, c) == Len(s) > 0 /\ s[1] = c

network_offline == "off-line"
network_minimal == "minimal"
network_full == "full"
network_levels == {network_offline, network_minimal, network_full}

FAILED_CHECK_DELAY == 60 * 60
DefaultFreshness == 60 * 60 * 24 * 30

(* ------------------------------------------------------------------ *)
(* Bounds                                                             *)
(* ------------------------------------------------------------------ *)

\* Download handles (tasks.Blocker objects) alive at one time.
MaxHandles == 3
\* Downloads in flight for one URL whose handle nobody holds.
MaxBackground == 1
\* Suppressed download attempts whose diagnostics are recorded.
MaxDiag == 2
\* Events logged for one call of solve_with_downloads.
MaxLog == 12
\* The hours of the time grid of the staleness inputs.
MaxHours == 2

HandleIds == 1..MaxHandles

VARIABLES
    \* Policy and its solver
    network_use,          \* solver.network_use
    freshness,            \* Policy.freshness
    warned_offline,       \* Policy._warned_offline
    stale_feeds,          \* Policy.stale_feeds
    root,                 \* Policy.root
    help_with_testing,    \* solver.help_with_testing
    constructed,          \* what __init__ read and what it left in the three settings
    ready,                \* solver.ready
    feeds_used,           \* solver.feeds_used
    selections,           \* solver.selections: interface URI -> optional implementation
    solver_dirty,         \* the solver's inputs changed since its last solve
    \* iface_cache and the clock
    now,                  \* time.time()
    cache_feeds,          \* iface_cache.get_feed: URL -> optional feed record
    check_attempts,       \* iface_cache.get_last_check_attempt: URL -> optional time
    \* fetcher
    handles,              \* handle id -> optional [url, happened, exception]: the handles the coroutine got
    background,           \* URL -> the downloads in flight whose handle nobody holds
    \* the solve_with_downloads coroutine
    pc,                   \* "idle", "waiting" (suspended at the yield), "done", "raised"
    force,                \* its local force
    downloads_finished,   \* its local set
    downloads_in_progress,\* its local dict: URL -> handle id
    \* observation
    entry,                \* the state in which the coroutine was entered
    log,                  \* what the coroutine did since it was entered
    diag,                 \* the levels of the off-line diagnostics logged so far
    offline_fetch,        \* the operations that asked the fetcher for a download while off-line
    stale_result,         \* the last call of is_stale: optional [feed, value]
    call_result           \* the last call of an accessor or probe: optional [op, ...]

vars == <<network_use, freshness, warned_offline, stale_feeds, root, help_with_testing,
          constructed, ready, feeds_used,
          selections, solver_dirty, now, cache_feeds, check_attempts, handles,
          background,          pc, force, downloads_finished, downloads_in_progress, entry, log, diag,
          offline_fetch, stale_result, call_result>>

policy_vars == <<network_use, freshness, warned_offline, stale_feeds, root,
                 help_with_testing, constructed>>
solver_vars == <<ready, feeds_used, selections, solver_dirty>>
cache_vars == <<now, cache_feeds, check_attempts>>
loop_vars == <<pc, force, downloads_finished, downloads_in_progress, entry, log>>

(* ------------------------------------------------------------------ *)
(* is_stale                                                           *)
(* ------------------------------------------------------------------ *)

FeedRecord(url, last_modified, last_checked) ==
    [url |-> url, last_modified |-> last_modified, last_checked |-> last_checked]

\* The attempt is recent: last_check_attempt and last_check_attempt > now - FAILED_CHECK_DELAY
TriedRecently(last_check_attempt) ==
    Truthy(last_check_attempt) /\ last_check_attempt[1] > now - FAILED_CHECK_DELAY

\* Fresh enough: self.freshness == 0 or staleness < self.freshness
FreshEnough(staleness) == freshness = 0 \/ staleness < freshness

\* Lines 191-192 left out: a feed never fetched is judged by its timestamps.
is_stale_ModifiedNotTested(feed) ==
    IF feed = None THEN TRUE
    ELSE IF startswith(feed[1].url, "/") THEN FALSE
    ELSE LET staleness == now - OrZero(feed[1].last_checked) IN
         IF FreshEnough(staleness) THEN FALSE
         ELSE IF TriedRecently(check_attempts[feed[1].url]) THEN FALSE
         ELSE TRUE

is_stale(feed) ==
    IF feed = None THEN TRUE
    ELSE IF startswith(feed[1].url, "/") THEN FALSE
    ELSE IF feed[1].last_modified = None THEN TRUE
    ELSE LET staleness == now - OrZero(feed[1].last_checked) IN
         IF FreshEnough(staleness) THEN FALSE
         ELSE IF TriedRecently(check_attempts[feed[1].url]) THEN FALSE
         ELSE TRUE

(* ------------------------------------------------------------------ *)
(* The fetcher and the solver (environment)                           *)
(* ------------------------------------------------------------------ *)

FreeIds(hs) == {h \in HandleIds : hs[h] = None}

NewHandle(hs) == CHOOSE h \in FreeIds(hs) : \A g \in FreeIds(hs) : h <= g

\* fetcher.download_and_import_feed: a new handle, not yet happened.
download_and_import_feed(hs, url) ==
    [hs EXCEPT ![NewHandle(hs)] = Some([url |-> url, happened |-> FALSE,
                                        exception |-> None])]

\* The same, the caller dropping the handle: one more download in flight for url.
download_and_import_feed_dropped(bg, url) == [bg EXCEPT ![url] = @ + 1]

InFlight(hs, url) ==
    {h \in HandleIds : hs[h] # None /\ hs[h][1].url = url /\ ~hs[h][1].happened}

\* An implementation: its id, and for a distribution package whether it is installed.
Implementation(id, distribution, installed) ==
    [id |-> id, distribution |-> distribution, installed |-> installed]

StoredImpl == Implementation(<<"s", "1">>, FALSE, FALSE)
UnstoredImpl == Implementation(<<"s", "2">>, FALSE, FALSE)
LocalImpl == Implementation(<<"/", "p">>, FALSE, FALSE)
LocalGoneImpl == Implementation(<<"/", "q">>, FALSE, FALSE)
PackageImpl == Implementation(<<"p", "1">>, TRUE, TRUE)
PackageGoneImpl == Implementation(<<"p", "2">>, TRUE, FALSE)

Implementations ==
    {StoredImpl, UnstoredImpl, LocalImpl, LocalGoneImpl, PackageImpl, PackageGoneImpl}

\* The paths that exist and the ids the stores hold (os.path.exists, stores.lookup).
ExistingPaths == {LocalImpl.id}
StoredIds == {StoredImpl.id}

\* An interface is known by its URI, that of its main feed.
Interfaces == RemoteFeeds

\* solver.selections: a dict from the interfaces considered to an implementation or None.
NoSelections == <<>>
Selections ==
    UNION {[S -> {None} \cup {Some(i) : i \in Implementations}] : S \in SUBSET Interfaces}

\* get_cached(impl), lines 260-271; get_implementation_path, lines 228-230, raises
\* NotStored for an id the stores do not hold.
get_cached(impl) ==
    IF impl.distribution THEN impl.installed
    ELSE IF startswith(impl.id, "/") THEN impl.id \in ExistingPaths
    ELSE impl.id \in StoredIds

\* Line 375: the selected implementations that are not cached.
UncachedSelected(sel) ==
    {i \in DOMAIN sel : sel[i] # None /\ ~get_cached(sel[i][1])}

\* What one solve may publish.
SolverResults == [ready : BOOLEAN, feeds_used : SUBSET Feeds, selections : Selections]

CurrentResult ==
    [ready |-> ready, feeds_used |-> feeds_used, selections |-> selections]

\* solver.solve: any result, but the same result while its inputs are unchanged,
\* off-line nothing selected that is not cached, and when ready no entry that is None.
solve(res) ==
    /\ res \in SolverResults
    /\ ~solver_dirty => res = CurrentResult
    /\ network_use = network_offline => UncachedSelected(res.selections) = {}
    /\ res.ready => \A i \in DOMAIN res.selections : res.selections[i] # None
    /\ ready' = res.ready
    /\ feeds_used' = res.feeds_used
    /\ selections' = res.selections
    /\ solver_dirty' = FALSE

\* tasks.check(blockers): the exception it raises: none, whether the downloads of the
\* blockers succeeded or failed.
tasks_check(hs, blockers) == None

(* ------------------------------------------------------------------ *)
(* download_and_import_feed_if_online                                 *)
(* ------------------------------------------------------------------ *)

\* Line 221 left out: the warning does not set _warned_offline.
OfflineDiagnostic_FlagNotSet(warned, feed_url) ==
    IF warned THEN [level |-> "debug", warned |-> warned]
    ELSE IF feed_url = injector_gui_uri THEN [level |-> "info", warned |-> warned]
    ELSE [level |-> "warn", warned |-> warned]

\* Lines 213-221: the diagnostic of a suppressed attempt, and _warned_offline after it.
OfflineDiagnostic(warned, feed_url) ==
    IF warned THEN [level |-> "debug", warned |-> warned]
    ELSE IF feed_url = injector_gui_uri THEN [level |-> "info", warned |-> warned]
    ELSE [level |-> "warn", warned |-> TRUE]

\* st = [warned, diag, background, ...]: the call's effect on it.  A suppressed attempt
\* is recorded with its diagnostic and with what the call returned.
download_and_import_feed_if_online(st, feed_url) ==
    IF network_use # network_offline
    THEN [st EXCEPT !.background = download_and_import_feed_dropped(@, feed_url)]
    ELSE LET d == OfflineDiagnostic(st.warned, feed_url) IN
         [st EXCEPT !.diag = Append(@, [level |-> d.level, url |-> feed_url,
                                        returned |-> None]),
                    !.warned = d.warned]

\* The operations that started a download while off-line, after op did (started) or not.
Fetched(op, started) ==
    IF started /\ network_use = network_offline THEN offline_fetch \cup {op}
    ELSE offline_fetch

\* A direct call of download_and_import_feed_if_online(feed_url).
CallGate(feed_url) ==
    /\ IF network_use # network_offline THEN background[feed_url] < MaxBackground
       ELSE Len(diag) < MaxDiag
    /\ LET st == download_and_import_feed_if_online(
                     [warned |-> warned_offline, diag |-> diag, background |-> background],
                     feed_url)
       IN /\ warned_offline' = st.warned
          /\ diag' = st.diag
          /\ background' = st.background
          /\ offline_fetch' = Fetched("download_and_import_feed_if_online",
                                      st.background # background)
    /\ UNCHANGED <<network_use, freshness, help_with_testing, constructed, root, stale_feeds, solver_vars, cache_vars, handles,
                   loop_vars, stale_result, call_result>>

(* ------------------------------------------------------------------ *)
(* solve_with_downloads                                               *)
(* ------------------------------------------------------------------ *)

\* What the log records: a solve and its readiness, a launch with its feeds and the
\* locals before it, the yield, a resumption with the feeds found done, the return.
Event(ev, r, urls, inprog, fin) ==
    [ev |-> ev, ready |-> r, urls |-> urls, in_progress |-> inprog, finished |-> fin]

\* dict[k] = v
DictSet(d, k, v) == (k :> v) @@ d

\* del dict[k] for every k of ks
DictDel(d, ks) == [k \in DOMAIN d \ ks |-> d[k]]

\* The break of line 326 never taken.
BreakWhenReady_Never(r, f0) == FALSE

\* Line 326: if self.solver.ready and not force: break
BreakWhenReady(r, f0) == r /\ ~f0

\* Line 331 left out: force stays as it was.
ForceAfterGap_Kept(f0) == f0

\* Line 331: force = True
ForceAfterGap(f0) == TRUE

\* Line 335 without its test of downloads_in_progress.
SkipFeed_NoInProgress(f, fin, inprog) ==
    \/ f \in fin
    \/ startswith(f, "/")

\* Lines 335-336 left out: only local feeds are passed over.
SkipFeed_OnlyLocal(f, fin, inprog) == startswith(f, "/")

\* Lines 335-338: the feeds the for loop passes over.
SkipFeed(f, fin, inprog) ==
    \/ f \in fin \/ f \in DOMAIN inprog
    \/ startswith(f, "/")

\* Line 333 without its test of network_use.
ToLaunch_IgnoreOffline(used, fin, inprog) == {f \in used : ~SkipFeed(f, fin, inprog)}

\* Lines 333-340: the feeds the for loop launches.
ToLaunch(used, fin, inprog) ==
    IF ~(network_use = network_offline)
    THEN {f \in used : ~SkipFeed(f, fin, inprog)}
    ELSE {}

\* Line 340 for every feed of urls, in some order: the handles and the dict after it.
RECURSIVE LaunchAll(_, _, _)
LaunchAll(hs, inprog, urls) ==
    IF urls = {} THEN [handles |-> hs, in_progress |-> inprog]
    ELSE LET f == CHOOSE u \in urls : TRUE
             h == NewHandle(hs)
         IN LaunchAll(download_and_import_feed(hs, f), DictSet(inprog, f, h),
                      urls \ {f})

\* Line 350 never true: no download is seen to have happened.
Happened_None(hs, inprog) == {}

\* Line 350 true only of a download that succeeded.
Happened_OnlySuccessful(hs, inprog) ==
    {f \in DOMAIN inprog : hs[inprog[f]][1].happened /\ hs[inprog[f]][1].exception = None}

\* Lines 349-351: the feeds whose download happened, which are deleted from the dict.
Happened(hs, inprog) == {f \in DOMAIN inprog : hs[inprog[f]][1].happened}

\* Line 352 left out.
FinishedAfter_NotAdded(fin, done) == fin

\* Line 352: downloads_finished.add(f) for the feeds done.
FinishedAfter(fin, done) == fin \cup done

\* A handle nothing refers to any more is dropped once it has happened.
Collect(hs, inprog) ==
    [h \in HandleIds |->
        IF hs[h] # None /\ hs[h][1].happened /\ h \notin {inprog[f] : f \in DOMAIN inprog}
        THEN None ELSE hs[h]]

\* Lines 323-346: one pass of the while loop, from the solve to a break or the yield.
\* f0, fin, inprog, hs and lg are the locals, the handles and the log before it.
LoopPass(op, f0, fin, inprog, hs, lg, res) ==
    /\ solve(res)
    /\ downloads_finished' = fin
    /\ LET lg1 == Append(lg, Event("solve", res.ready, {}, {}, {})) IN
       IF BreakWhenReady(res.ready, f0)
       THEN /\ pc' = "done"
            /\ force' = f0
            /\ downloads_in_progress' = inprog
            /\ handles' = hs
            /\ log' = Append(lg1, Event("return", res.ready, {}, {}, {}))
            /\ offline_fetch' = offline_fetch
       ELSE LET urls == ToLaunch(res.feeds_used, fin, inprog)
                l == LaunchAll(hs, inprog, urls)
                lg2 == IF urls = {} THEN lg1
                       ELSE Append(lg1, Event("launch", res.ready, urls, DOMAIN inprog, fin))
            IN /\ Cardinality(urls) <= Cardinality(FreeIds(hs))
               /\ force' = ForceAfterGap(f0)
               /\ downloads_in_progress' = l.in_progress
               /\ handles' = l.handles
               /\ offline_fetch' = Fetched(op, urls # {})
               /\ IF DOMAIN l.in_progress = {}
                  THEN /\ pc' = "done"
                       /\ log' = Append(lg2, Event("return", res.ready, {}, {}, {}))
                  ELSE /\ pc' = "waiting"
                       /\ log' = Append(lg2, Event("yield", res.ready, {}, {}, {}))

\* The arguments and the state at the call.
EntryRecord(f0) ==
    [force |-> f0, offline |-> (network_use = network_offline), warned |-> warned_offline,
     already_ready |-> (ready /\ ~solver_dirty)]

\* solve_with_downloads(force): lines 315-346, up to the first break or yield.
solve_with_downloads(f0, res) ==
    /\ pc \in {"idle", "done", "raised"}
    /\ entry' = EntryRecord(f0)
    /\ LoopPass("solve_with_downloads", f0, {}, <<>>, handles, <<>>, res)
    /\ UNCHANGED <<policy_vars, cache_vars, background, diag, stale_result, call_result>>


\* Line 287 passing its own argument on.
refresh_all_ForcePassedOn(f0, res) == solve_with_downloads(f0, res)

\* refresh_all(force): line 287, solve_with_downloads(force = True) whatever force is.
refresh_all(f0, res) == solve_with_downloads(TRUE, res)

\* The scheduler resumes the coroutine once a blocker it yielded has happened:
\* lines 347-352, then the next pass of the loop.
Resume(res) ==
    /\ pc = "waiting"
    /\ Len(log) < MaxLog
    /\ \E f \in DOMAIN downloads_in_progress : handles[downloads_in_progress[f]][1].happened
    /\ IF tasks_check(handles, DOMAIN downloads_in_progress) # None
       THEN /\ pc' = "raised"
            /\ log' = Append(log, Event("raise", ready, {}, {}, {}))
            /\ UNCHANGED <<solver_vars, handles, force, downloads_finished,
                           downloads_in_progress, offline_fetch>>
       ELSE LET done == Happened(handles, downloads_in_progress)
                inprog == DictDel(downloads_in_progress, done)
                fin == FinishedAfter(downloads_finished, done)
                hs == Collect(handles, inprog)
                completed == {f \in DOMAIN downloads_in_progress :
                                 handles[downloads_in_progress[f]][1].happened}
                lg == Append(log, Event("resume", ready, completed, DOMAIN inprog, fin))
            IN LoopPass("solve_with_downloads", force, fin, inprog, hs, lg, res)
    /\ UNCHANGED <<policy_vars, cache_vars, background, entry, diag, stale_result, call_result>>

\* Another invocation of solve_with_downloads(force), made while the first is
\* suspended: lines 315-340 of it, its own two collections being empty.  The handles
\* it gets are its own; its downloads are counted with those nobody of this
\* invocation holds.
solve_with_downloads_again(f0, res) ==
    /\ pc = "waiting"
    /\ solve(res)
    /\ LET urls == IF BreakWhenReady(res.ready, f0) THEN {}
                   ELSE ToLaunch(res.feeds_used, {}, <<>>)
       IN /\ \A f \in urls : background[f] < MaxBackground
          /\ background' = [f \in DOMAIN background |->
                               IF f \in urls
                               THEN download_and_import_feed_dropped(background, f)[f]
                               ELSE background[f]]
          /\ offline_fetch' = Fetched("solve_with_downloads", urls # {})
    /\ UNCHANGED <<policy_vars, cache_vars, handles, loop_vars, diag, stale_result,
                   call_result>>

\* The feed of a completed download is imported into the cache (ok) or not.
Imported(url, ok) ==
    IF ok
    THEN /\ cache_feeds' = [cache_feeds EXCEPT
                              ![url] = Some(FeedRecord(url, Some(1), Some(now)))]
         /\ solver_dirty' = TRUE
    ELSE UNCHANGED <<cache_feeds, solver_dirty>>

\* A download whose handle the coroutine holds completes.
DownloadComplete(h, ok) ==
    /\ handles[h] # None
    /\ ~handles[h][1].happened
    /\ LET hs == [handles EXCEPT ![h] = Some([@[1] EXCEPT
                                              !.happened = TRUE,
                                              !.exception = IF ok THEN None
                                                            ELSE Some("failed")])] IN
       handles' = Collect(hs, IF pc = "waiting" THEN downloads_in_progress ELSE <<>>)
    /\ Imported(handles[h][1].url, ok)
    /\ UNCHANGED <<policy_vars, ready, feeds_used, selections, now, check_attempts,
                   background, loop_vars, diag, offline_fetch, stale_result, call_result>>

\* A download whose handle nobody holds completes.
BackgroundComplete(url, ok) ==
    /\ background[url] > 0
    /\ background' = [background EXCEPT ![url] = @ - 1]
    /\ Imported(url, ok)
    /\ UNCHANGED <<policy_vars, ready, feeds_used, selections, now, check_attempts,
                   handles, loop_vars, diag, offline_fetch, stale_result, call_result>>

(* ------------------------------------------------------------------ *)
(* recalculate and the other operations                               *)
(* ------------------------------------------------------------------ *)

\* The orders in which a for loop may pass over a set.
Orders(S) == {o \in [1..Cardinality(S) -> S] : \A i, j \in DOMAIN o : i # j => o[i] # o[j]}

\* Line 159 left out: a stale feed is fetched whatever fetch_stale_interfaces is.
RecalculateFeed_FetchAnyStale(st, f, fetch_stale_interfaces) ==
    IF startswith(f, "/") THEN st
    ELSE LET feed == cache_feeds[f] IN
         IF feed = None \/ feed[1].last_modified = None
         THEN download_and_import_feed_if_online(st, f)
         ELSE IF is_stale(feed)
         THEN download_and_import_feed_if_online([st EXCEPT !.stale = @ \cup {f}], f)
         ELSE st

\* Lines 152-160: the body of the for loop for feed f; st also carries stale_feeds.
RecalculateFeed(st, f, fetch_stale_interfaces) ==
    IF startswith(f, "/") THEN st
    ELSE LET feed == cache_feeds[f] IN
         IF feed = None \/ feed[1].last_modified = None
         THEN download_and_import_feed_if_online(st, f)
         ELSE IF is_stale(feed)
         THEN LET st1 == [st EXCEPT !.stale = @ \cup {f}] IN
              IF fetch_stale_interfaces THEN download_and_import_feed_if_online(st1, f)
              ELSE st1
         ELSE st

RECURSIVE RecalculateLoop(_, _, _, _)
RecalculateLoop(st, order, i, fetch_stale_interfaces) ==
    IF i > Len(order) THEN st
    ELSE RecalculateLoop(RecalculateFeed(st, order[i], fetch_stale_interfaces), order, i + 1,
                         fetch_stale_interfaces)

\* The feeds for which recalculate calls download_and_import_feed_if_online.
RecalculateCalls(used, fetch_stale_interfaces) ==
    {f \in used : /\ ~startswith(f, "/")
                  /\ \/ cache_feeds[f] = None
                     \/ cache_feeds[f][1].last_modified = None
                     \/ is_stale(cache_feeds[f]) /\ fetch_stale_interfaces}

\* recalculate(fetch_stale_interfaces): lines 140-164.
recalculate(fetch_stale_arg, res, order) ==
    /\ solve(res)
    /\ order \in Orders(res.feeds_used)
    /\ LET fetch_stale_interfaces ==
               IF network_use = network_offline THEN FALSE ELSE fetch_stale_arg
           calls == RecalculateCalls(res.feeds_used, fetch_stale_interfaces)
           st0 == [warned |-> warned_offline, diag |-> diag, background |-> background,
                   stale |-> {}]
           st == RecalculateLoop(st0, order, 1, fetch_stale_interfaces)
       IN /\ IF network_use # network_offline
             THEN \A f \in calls : background[f] < MaxBackground
             ELSE Len(diag) + Cardinality(calls) <= MaxDiag
          /\ stale_feeds' = st.stale
          /\ warned_offline' = st.warned
          /\ diag' = st.diag
          /\ background' = st.background
          /\ offline_fetch' = Fetched("recalculate", st.background # background)
    /\ UNCHANGED <<network_use, freshness, help_with_testing, constructed, root, cache_vars, handles, loop_vars, stale_result, call_result>>

\* download_icon(interface, force): lines 385-389.
download_icon ==
    /\ offline_fetch' = IF network_use = network_offline THEN offline_fetch
                        ELSE Fetched("download_icon", TRUE)
    /\ UNCHANGED <<policy_vars, solver_vars, cache_vars, handles, background, loop_vars,
                   diag, stale_result, call_result>>

\* download_uncached_implementations: lines 374-376.  The assertion fails unless the
\* solver is ready; the fetcher is given the selected implementations not cached.
download_uncached_implementations ==
    /\ offline_fetch' = IF ready
                        THEN Fetched("download_uncached_implementations",
                                     UncachedSelected(selections) # {})
                        ELSE offline_fetch
    /\ UNCHANGED <<policy_vars, solver_vars, cache_vars, handles, background, loop_vars,
                   diag, stale_result, call_result>>

\* policy.network_use = n: the property's setter, line 60.
SetNetworkUse(n) ==
    /\ n # network_use
    /\ network_use' = n
    /\ solver_dirty' = TRUE
    /\ UNCHANGED <<freshness, help_with_testing, constructed, root, warned_offline, stale_feeds, ready, feeds_used,
                   selections, cache_vars, handles, background, loop_vars, diag,
                   offline_fetch, stale_result, call_result>>

\* set_root(root): lines 117-119.
set_root(r) ==
    /\ r # root
    /\ root' = r
    /\ UNCHANGED <<network_use, freshness, help_with_testing, constructed, warned_offline, stale_feeds, solver_vars,
                   cache_vars, handles, background, loop_vars, diag, offline_fetch,
                   stale_result, call_result>>

(* ------------------------------------------------------------------ *)
(* get_implementation, get_uncached_implementations, need_download    *)
(* ------------------------------------------------------------------ *)

\* Python truth of an optional string: None and the empty string are both false.
TruthyStr(opt) == opt # None /\ opt[1] # <<>>

\* An Interface of the cache: its URI, its name (None until its feed is loaded), and
\* whether its feeds and its implementations are non-empty.
InterfaceObjects ==
    [uri : Interfaces, name : {None, Some(<<>>), Some(<<"n">>)}, feeds : BOOLEAN,
     implementations : BOOLEAN]

\* What a call did: the exception it raised, if any, with what its message says, or
\* the value it returned.
Raised(exception, message, named, offline_hint) ==
    [raised |-> Some(exception), message |-> message, named |-> named,
     offline_hint |-> offline_hint, value |-> None]

Returned(value) ==
    [raised |-> None, message |-> "", named |-> None, offline_hint |-> FALSE,
     value |-> Some(value)]

\* get_implementation(interface): lines 240-253.
get_implementation(interface) ==
    IF ~TruthyStr(interface.name) /\ ~interface.feeds
    THEN Raised("SafeException", "Need to download", Some(interface.uri), FALSE)
    ELSE IF interface.uri \in DOMAIN selections
    THEN Returned(selections[interface.uri])
    ELSE IF interface.implementations
    THEN Raised("SafeException", "No usable implementation found", interface.name,
                network_use = network_offline)
    ELSE Raised("KeyError", "", Some(interface.uri), FALSE)

\* Line 279 left out: an entry that is None is listed with the others.
get_uncached_implementations_NoAssert(sel) ==
    Returned({<<i, sel[i]>> : i \in {j \in DOMAIN sel : sel[j] = None \/ ~get_cached(sel[j][1])}})

\* get_uncached_implementations, lines 276-282, of the selections sel: the pairs of an
\* interface and its implementation (the order of the list is that of the dict).
get_uncached_implementations(sel) ==
    IF \E i \in DOMAIN sel : sel[i] = None
    THEN Raised("AssertionError", "", None, FALSE)
    ELSE Returned({<<i, sel[i]>> : i \in {j \in DOMAIN sel : ~get_cached(sel[j][1])}})

\* Lines 364-370 without line 364: readiness is not looked at.
NeedDownloadResult_ReadyIgnored(res) ==
    LET uncached == get_uncached_implementations(res.selections) IN
    IF uncached.raised # None THEN uncached
    ELSE Returned(uncached.value[1] # {})

\* Lines 364-370: what need_download returns after its solve published res.
NeedDownloadResult(res) ==
    IF ~res.ready THEN Returned(TRUE)
    ELSE LET uncached == get_uncached_implementations(res.selections) IN
         IF uncached.raised # None THEN uncached
         ELSE Returned(uncached.value[1] # {})

CallRecord(op, arg, outcome) == [op |-> op, arg |-> arg, outcome |-> outcome]

\* need_download(): lines 358-370.
need_download(res) ==
    /\ solve(res)
    /\ call_result' = Some(CallRecord("need_download", None, NeedDownloadResult(res)))
    /\ UNCHANGED <<policy_vars, cache_vars, handles, background, loop_vars, diag,
                   offline_fetch, stale_result>>

\* A call of get_implementation(interface).
CallGetImplementation(interface) ==
    /\ call_result' = Some(CallRecord("get_implementation", Some(interface),
                                      get_implementation(interface)))
    /\ UNCHANGED <<policy_vars, solver_vars, cache_vars, handles, background, loop_vars,
                   diag, offline_fetch, stale_result>>

\* A call of get_uncached_implementations().
CallGetUncached ==
    /\ call_result' = Some(CallRecord("get_uncached_implementations", None,
                                      get_uncached_implementations(selections)))
    /\ UNCHANGED <<policy_vars, solver_vars, cache_vars, handles, background, loop_vars,
                   diag, offline_fetch, stale_result>>

(* ------------------------------------------------------------------ *)
(* __init__: the configuration file                                   *)
(* ------------------------------------------------------------------ *)

\* The solver's help_with_testing before any configuration is loaded.
DefaultHelpWithTesting == FALSE

\* str.lower on the letters that matter here.
Lower(c) == IF c = "T" THEN "t" ELSE IF c = "F" THEN "f" ELSE c

LowerAll(str) == [i \in DOMAIN str |-> Lower(str[i])]

\* ConfigParser.getboolean: the value, or None for the ValueError it raises.
getboolean(str) ==
    IF LowerAll(str) \in {<<"1">>, <<"t", "r", "u", "e">>} THEN Some(TRUE)
    ELSE IF LowerAll(str) \in {<<"0">>, <<"f", "a", "l", "s", "e">>} THEN Some(FALSE)
    ELSE None

Digits == <<"0", "1", "2", "3", "4", "5", "6", "7", "8", "9">>

DigitValue(c) == (CHOOSE i \in DOMAIN Digits : Digits[i] = c) - 1

IsDigits(str) == Len(str) > 0 /\ \A i \in DOMAIN str : \E j \in DOMAIN Digits : Digits[j] = str[i]

RECURSIVE Decimal(_)
Decimal(str) ==
    IF Len(str) = 0 THEN 0
    ELSE 10 * Decimal(SubSeq(str, 1, Len(str) - 1)) + DigitValue(str[Len(str)])

\* int(str): the value, or None for the ValueError it raises.
int(str) ==
    IF IsDigits(str) THEN Some(Decimal(str))
    ELSE IF Len(str) > 1 /\ str[1] = "-" /\ IsDigits(Tail(str)) THEN Some(0 - Decimal(Tail(str)))
    ELSE None

\* The file 'global': whether ConfigParser can parse it, and the three options of its
\* section 'global', each missing (None) or a string.
ConfigFile(parses, hwt, network, fresh) ==
    [parses |-> parses, help_with_testing |-> hwt, network_use |-> network,
     freshness |-> fresh]

\* No configuration file: load_first_config returns None.
NoConfigFile == None

Settings(hwt, network, fresh) ==
    [help_with_testing |-> hwt, network_use |-> network, freshness |-> fresh]

\* Lines 75 and 80, then lines 93-104: the three settings after __init__ has read
\* config.  Each assignment is made as soon as its option is read; the first
\* exception ends the loading and is logged.
LoadConfig(config) ==
    LET s0 == Settings(DefaultHelpWithTesting, network_full, DefaultFreshness) IN
    IF config = NoConfigFile THEN s0
    ELSE LET file == config[1] IN
         IF ~file.parses THEN s0
         ELSE IF file.help_with_testing = None \/ getboolean(file.help_with_testing[1]) = None
         THEN s0
         ELSE LET s1 == [s0 EXCEPT !.help_with_testing =
                                       getboolean(file.help_with_testing[1])[1]] IN
              IF file.network_use = None THEN s1
              ELSE LET s2 == [s1 EXCEPT !.network_use = file.network_use[1]] IN
                   IF file.freshness = None \/ int(file.freshness[1]) = None THEN s2
                   ELSE [s2 EXCEPT !.freshness = int(file.freshness[1])[1]]

\* What __init__ read and the settings it left.
Construction(config) == [config |-> config, settings |-> LoadConfig(config)]

\* A Policy constructed without a configuration file.
NoConfigLoaded ==
    /\ constructed = Construction(NoConfigFile)
    /\ help_with_testing = DefaultHelpWithTesting

(* ------------------------------------------------------------------ *)
(* The specification                                                  *)
(* ------------------------------------------------------------------ *)

\* A feed fetched so long ago that the default freshness calls it stale.
OldFeed(f) == Some(FeedRecord(f, Some(1), Some(FAILED_CHECK_DELAY)))

InitCommon ==
    /\ warned_offline = FALSE
    /\ stale_feeds = {}
    /\ root = FeedA
    /\ ready = FALSE
    /\ feeds_used = {}
    /\ selections = NoSelections
    /\ solver_dirty = TRUE
    /\ handles = [h \in HandleIds |-> None]
    /\ background = [f \in Feeds |-> 0]
    /\ pc = "idle"
    /\ force = FALSE
    /\ downloads_finished = {}
    /\ downloads_in_progress = <<>>
    /\ entry = [force |-> FALSE, offline |-> FALSE, warned |-> FALSE,
                already_ready |-> FALSE]
    /\ log = <<>>
    /\ diag = <<>>
    /\ offline_fetch = {}
    /\ stale_result = None
    /\ call_result = None

Init ==
    /\ InitCommon
    /\ NoConfigLoaded
    /\ network_use \in network_levels
    /\ freshness = DefaultFreshness
    /\ now = DefaultFreshness + 2 * FAILED_CHECK_DELAY
    /\ cache_feeds \in {c \in [Feeds -> {None} \cup {OldFeed(f) : f \in Feeds}] :
                          /\ c[LocalFeed] = OldFeed(LocalFeed)
                          /\ \A f \in RemoteFeeds : c[f] \in {None, OldFeed(f)}}
    /\ check_attempts = [f \in Feeds |-> None]

\* One selection with everything cached and one with an implementation to download.
CachedSelection == (FeedA :> Some(StoredImpl))
UncachedSelection == (FeedA :> Some(UnstoredImpl))

\* The results a solve is given where the selections are not looked at.
LoopResults == {r \in SolverResults : r.selections = CachedSelection}

Next ==
    \/ \E f0 \in BOOLEAN, res \in LoopResults : solve_with_downloads(f0, res)
    \/ \E f0 \in BOOLEAN, res \in LoopResults : refresh_all(f0, res)
    \/ \E res \in LoopResults : Resume(res)
    \/ \E h \in HandleIds, ok \in BOOLEAN : DownloadComplete(h, ok)
    \/ \E n \in network_levels : SetNetworkUse(n)

Spec == Init /\ [][Next]_vars

\* The results a solve is given where the remote feeds are what matters.
FairResults == {r \in LoopResults : LocalFeed \notin r.feeds_used}

\* A call of solve_with_downloads with either force, to its return.
NextFair ==
    \/ \E f0 \in BOOLEAN, res \in FairResults : solve_with_downloads(f0, res)
    \/ \E res \in FairResults : Resume(res)
    \/ \E h \in HandleIds, ok \in BOOLEAN : DownloadComplete(h, ok)
    \/ \E n \in network_levels : SetNetworkUse(n)

\* Every download completes, and the scheduler resumes a coroutine whose blocker has
\* triggered.
SpecFair ==
    /\ Init /\ [][NextFair]_vars
    /\ WF_vars(\E h \in HandleIds, ok \in BOOLEAN : DownloadComplete(h, ok))
    /\ WF_vars(\E res \in FairResults : Resume(res))

\* is_stale(iface_cache.get_feed(f)), as recalculate calls it.
CallIsStale(f) ==
    /\ stale_result' = Some([feed |-> cache_feeds[f], value |-> is_stale(cache_feeds[f])])
    /\ UNCHANGED <<policy_vars, solver_vars, cache_vars, handles, background, loop_vars,
                   diag, offline_fetch, call_result>>

\* Times around the hours: each hour, the second before and the second after.
TimeGrid == {t \in 0..(MaxHours * FAILED_CHECK_DELAY + 1) :
               \E k \in 0..MaxHours : t \in {k * FAILED_CHECK_DELAY - 1, k * FAILED_CHECK_DELAY,
                                              k * FAILED_CHECK_DELAY + 1}}

OptionalTimes == {None} \cup {Some(t) : t \in TimeGrid}

\* Any clock, freshness and timestamps of the grid; the remote and the local feed
\* carry the same timestamps and the GUI feed is not in the cache.
InitStale ==
    /\ InitCommon
    /\ NoConfigLoaded
    /\ network_use = network_full
    /\ freshness \in TimeGrid
    /\ now \in TimeGrid
    /\ \E lm \in {None, Some(1)}, lc \in OptionalTimes :
          cache_feeds = [f \in Feeds |-> IF f = injector_gui_uri THEN None
                                         ELSE Some(FeedRecord(f, lm, lc))]
    /\ \E a \in OptionalTimes : check_attempts = [f \in Feeds |-> a]

NextStale == \E f \in Feeds : CallIsStale(f)

SpecStale == InitStale /\ [][NextStale]_vars

\* The results a solve is given where only the feeds in use matter: not ready.
GateResults == {r \in LoopResults : ~r.ready}

\* The calls that may meet the off-line gate, and the network setting changing.
NextGate ==
    \/ \E f \in RemoteFeeds : CallGate(f)
    \/ \E fs \in BOOLEAN, res \in GateResults :
           \E order \in Orders(res.feeds_used) : recalculate(fs, res, order)
    \/ \E f \in RemoteFeeds, ok \in BOOLEAN : BackgroundComplete(f, ok)
    \/ \E n \in network_levels : SetNetworkUse(n)

SpecGate == Init /\ [][NextGate]_vars

\* The results a solve is given where one remote feed is enough.
OneFeedResults ==
    {r \in SolverResults : /\ r.feeds_used = {LocalFeed, FeedA}
                           /\ r.selections \in {CachedSelection, UncachedSelection}}

\* Every operation that may ask the fetcher for a download.
InitOps == Init /\ \A f \in RemoteFeeds : cache_feeds[f] = None

NextOps ==
    \/ \E f0 \in BOOLEAN, res \in OneFeedResults : solve_with_downloads(f0, res)
    \/ \E f0 \in BOOLEAN, res \in OneFeedResults : refresh_all(f0, res)
    \/ \E res \in OneFeedResults : Resume(res)
    \/ \E h \in HandleIds, ok \in BOOLEAN : DownloadComplete(h, ok)
    \/ \E ok \in BOOLEAN : BackgroundComplete(FeedA, ok)
    \/ CallGate(FeedA)
    \/ \E fs \in BOOLEAN, res \in OneFeedResults :
           \E order \in Orders(res.feeds_used) : recalculate(fs, res, order)
    \/ download_icon
    \/ download_uncached_implementations
    \/ \E n \in network_levels : SetNetworkUse(n)

SpecOps == InitOps /\ [][NextOps]_vars

\* The results a solve is given where the local feed is always in use.
LocalResults == {r \in LoopResults : LocalFeed \in r.feeds_used /\ r.feeds_used \subseteq {LocalFeed, FeedA}}

\* The local feed with any timestamps, old, fresh or missing, and either freshness; the
\* remote feed FeedA cached and old.
InitLocal ==
    /\ InitCommon
    /\ NoConfigLoaded
    /\ network_use = network_full
    /\ freshness \in {0, DefaultFreshness}
    /\ now = DefaultFreshness + 2 * FAILED_CHECK_DELAY
    /\ \E lm \in {None, Some(1)}, lc \in {None, Some(FAILED_CHECK_DELAY), Some(now)} :
          cache_feeds = [f \in Feeds |->
                            IF f = LocalFeed THEN Some(FeedRecord(f, lm, lc))
                            ELSE IF f = FeedA THEN OldFeed(f) ELSE None]
    /\ check_attempts = [f \in Feeds |-> None]

\* recalculate and solve_with_downloads in any order, with calls of is_stale.
NextLocal ==
    \/ \E f \in {LocalFeed, FeedA} : CallIsStale(f)
    \/ \E fs \in BOOLEAN, res \in LocalResults :
           \E order \in Orders(res.feeds_used) : recalculate(fs, res, order)
    \/ \E f0 \in BOOLEAN, res \in LocalResults : solve_with_downloads(f0, res)
    \/ \E res \in LocalResults : Resume(res)
    \/ \E h \in HandleIds, ok \in BOOLEAN : DownloadComplete(h, ok)
    \/ \E f \in Feeds, ok \in BOOLEAN : BackgroundComplete(f, ok)
    \/ \E n \in network_levels : SetNetworkUse(n)

SpecLocal == InitLocal /\ [][NextLocal]_vars

\* A feed whose record is in the cache without ever having been fetched.
NeverFetched(f) == Some(FeedRecord(f, None, None))

\* A feed fetched and checked just now.
FreshFeed(f) == Some(FeedRecord(f, Some(1), Some(now)))

\* FeedA missing, never fetched, old or fresh, with or without a check attempted a
\* second ago; the GUI feed missing or old.
InitRecalc ==
    /\ InitCommon
    /\ NoConfigLoaded
    /\ network_use \in network_levels
    /\ freshness = DefaultFreshness
    /\ now = DefaultFreshness + 2 * FAILED_CHECK_DELAY
    /\ \E a \in {None, NeverFetched(FeedA), OldFeed(FeedA), FreshFeed(FeedA)},
          g \in {None, OldFeed(injector_gui_uri)} :
          cache_feeds = [f \in Feeds |-> IF f = FeedA THEN a
                                         ELSE IF f = injector_gui_uri THEN g
                                         ELSE OldFeed(f)]
    /\ \E t \in {None, Some(now - 1)} :
          check_attempts = [f \in Feeds |-> IF f = FeedA THEN t ELSE None]

\* The results a solve is given where FeedA is in use.
RecalcResults == {r \in GateResults : FeedA \in r.feeds_used}

\* Calls of recalculate, the downloads they start completing, the network setting
\* changing.
NextRecalc ==
    \/ \E fs \in BOOLEAN, res \in RecalcResults :
           \E order \in Orders(res.feeds_used) : recalculate(fs, res, order)
    \/ \E f \in RemoteFeeds, ok \in BOOLEAN : BackgroundComplete(f, ok)
    \/ \E n \in network_levels : SetNetworkUse(n)

SpecRecalc == InitRecalc /\ [][NextRecalc]_vars

\* The results a solve is given where the selections matter and the feeds do not.
SelectResults == {r \in SolverResults : r.feeds_used = {FeedA}}

\* Solves, by need_download, and the accessors of the selections.
NextSelect ==
    \/ \E res \in SelectResults : need_download(res)
    \/ \E interface \in InterfaceObjects : CallGetImplementation(interface)
    \/ CallGetUncached
    \/ \E n \in network_levels : SetNetworkUse(n)

SpecSelect == InitOps /\ [][NextSelect]_vars

\* The results a solve is given where one interface is selected, FeedA being in use.
ProbeResults ==
    {r \in SolverResults : r.feeds_used = {FeedA} /\ DOMAIN r.selections = {FeedA}}

\* FeedA is cached and old, so that recalculate finds it stale, or missing, so that
\* recalculate warns when off-line.
InitProbe ==
    /\ Init
    /\ cache_feeds[injector_gui_uri] = None

\* need_download between the operations that change what it must leave alone.
NextProbe ==
    \/ \E res \in ProbeResults : need_download(res)
    \/ \E fs \in BOOLEAN, res \in ProbeResults :
           \E order \in Orders(res.feeds_used) : recalculate(fs, res, order)
    \/ \E ok \in BOOLEAN : BackgroundComplete(FeedA, ok)
    \/ \E r \in Interfaces : set_root(r)
    \/ \E n \in network_levels : SetNetworkUse(n)

SpecProbe == InitProbe /\ [][NextProbe]_vars

\* The strings an option of the file may hold.
BooleanStrings == {<<"T", "r", "u", "e">>, <<"0">>, <<"m">>}
NetworkStrings == network_levels \cup {"bogus"}
IntegerStrings == {<<"0">>, <<"6", "0">>, <<"-", "1">>, <<"x">>}

\* No file, a file that does not parse, or a file with each option missing or set.
Configs ==
    {NoConfigFile, Some(ConfigFile(FALSE, None, None, None))} \cup
    {Some(ConfigFile(TRUE, h, n, f)) :
        h \in {None} \cup {Some(x) : x \in BooleanStrings},
        n \in {None} \cup {Some(x) : x \in NetworkStrings},
        f \in {None} \cup {Some(x) : x \in IntegerStrings}}

\* The state after __init__ has read any configuration.
InitConfig ==
    /\ InitCommon
    /\ \E config \in Configs :
          /\ constructed = Construction(config)
          /\ help_with_testing = constructed.settings.help_with_testing
          /\ network_use = constructed.settings.network_use
          /\ freshness = constructed.settings.freshness
    /\ now = DefaultFreshness + 2 * FAILED_CHECK_DELAY
    /\ cache_feeds = [f \in Feeds |-> IF f = LocalFeed THEN OldFeed(f) ELSE None]
    /\ check_attempts = [f \in Feeds |-> None]

\* The settings changing after the construction.
NextConfig ==
    \/ \E n \in network_levels : SetNetworkUse(n)
    \/ \E r \in Interfaces : set_root(r)

SpecConfig == InitConfig /\ [][NextConfig]_vars

\* The results a solve is given where both remote feeds are used.
ConcurrentResults == {r \in LoopResults : r.feeds_used = RemoteFeeds}

\* A call of solve_with_downloads, and the operations that may start a download while
\* it is suspended.
NextConcurrent ==
    \/ \E f0 \in BOOLEAN, res \in ConcurrentResults : solve_with_downloads(f0, res)
    \/ \E res \in ConcurrentResults : Resume(res)
    \/ \E h \in HandleIds, ok \in BOOLEAN : DownloadComplete(h, ok)
    \/ \E f0 \in BOOLEAN, res \in ConcurrentResults : solve_with_downloads_again(f0, res)
    \/ \E fs \in BOOLEAN, res \in ConcurrentResults :
           \E order \in Orders(res.feeds_used) : recalculate(fs, res, order)
    \/ \E f \in RemoteFeeds, ok \in BOOLEAN : BackgroundComplete(f, ok)

SpecConcurrent == InitOps /\ [][NextConcurrent]_vars

(* ------------------------------------------------------------------ *)
(* What the log of a call says                                        *)
(* ------------------------------------------------------------------ *)

At(lg, ev) == {i \in DOMAIN lg : lg[i].ev = ev}

NumSolves(lg) == Cardinality(At(lg, "solve"))

Launched(lg) == UNION {lg[i].urls : i \in At(lg, "launch")}

RECURSIVE HandlesCreated(_, _)
HandlesCreated(lg, i) ==
    IF i > Len(lg) THEN 0
    ELSE (IF lg[i].ev = "launch" THEN Cardinality(lg[i].urls) ELSE 0) + HandlesCreated(lg, i + 1)

\* One solve that found the solver ready (r), and the return: nothing else.
QuickReturn(r) ==
    /\ pc = "done"
    /\ log = <<Event("solve", r, {}, {}, {}), Event("return", r, {}, {}, {})>>
    /\ \A h \in HandleIds : handles[h] = None

(* ------------------------------------------------------------------ *)
(* Claims                                                             *)
(* ------------------------------------------------------------------ *)

\* C1: within one call of solve_with_downloads a feed is launched only while it is in
\* neither downloads_in_progress nor downloads_finished; so no feed is launched twice
\* and the call never has two downloads in flight for one URL.
C1_LaunchOnlyNewFeeds ==
    /\ \A i \in At(log, "launch") :
          log[i].urls \cap (log[i].in_progress \cup log[i].finished) = {}
    /\ \A i, j \in At(log, "launch") : i # j => log[i].urls \cap log[j].urls = {}
    /\ \A f \in Feeds : Cardinality(InFlight(handles, f)) <= 1

\* A later pass launched a feed while the solver still used a feed already finished.
C1_Witness ==
    /\ pc = "waiting"
    /\ \E i \in At(log, "launch") :
          /\ i = Len(log) - 1
          /\ log[i].finished # {}
          /\ log[i].finished \subseteq feeds_used

\* C2: when solve_with_downloads has returned, downloads_in_progress is empty, every
\* feed it launched is in downloads_finished and none of its downloads is in flight.
C2_NothingPendingAtReturn ==
    pc = "done" =>
        /\ DOMAIN downloads_in_progress = {}
        /\ Launched(log) \subseteq downloads_finished
        /\ \A f \in Feeds : InFlight(handles, f) = {}

\* It returned after a pass in which the solver was ready while a download was pending.
C2_Witness ==
    /\ pc = "done"
    /\ Launched(log) # {}
    /\ \E i \in At(log, "solve") : log[i].ready /\ i < Len(log) /\ log[i + 1].ev = "yield"

\* C3: when every download completes, a suspended solve_with_downloads returns in the
\* end, for either force and any network_use; and it solves at most once more than
\* the remote feeds it launched, which are among the remote feeds the solver reports.
C3_Terminates ==
    /\ (pc = "waiting") ~> (pc = "done")
    /\ [](/\ NumSolves(log) <= Cardinality(Launched(log)) + 1
          /\ Launched(log) \subseteq RemoteFeeds
          /\ NumSolves(log) <= Cardinality(RemoteFeeds) + 1)

\* A call that solved once more than there are remote feeds has returned.
C3_Witness ==
    /\ pc = "done"
    /\ NumSolves(log) = Cardinality(RemoteFeeds) + 1

\* C4: with force false, a first solve that finds the solver ready is the only solve:
\* nothing is launched and the call returns without suspending, whatever feeds_used
\* and network_use are; and so does a call made when the solver is ready already.
C4_ReadyReturnsAtOnce ==
    (pc # "idle" /\ ~entry.force /\ (log[1].ready \/ entry.already_ready)) => QuickReturn(TRUE)

\* A call repeated when ready, on-line and with a remote feed in use, returned at once.
C4_Witness ==
    /\ pc = "done"
    /\ ~entry.force
    /\ entry.already_ready
    /\ ~entry.offline
    /\ network_use = network_full
    /\ feeds_used \cap RemoteFeeds # {}
    /\ QuickReturn(TRUE)

\* C5: every resumption moves all the downloads that completed from
\* downloads_in_progress to downloads_finished and is followed by a solve before any
\* launch or return; and where the first solve is not ready and launches FeedA alone
\* and the second is ready with no other remote feed, the call is exactly: solve,
\* launch, yield, resume, solve, return, with one handle created.
C5_ResolveAfterResume ==
    /\ \A i \in At(log, "resume") :
          /\ log[i].urls # {}
          /\ log[i].urls \subseteq log[i].finished
          /\ log[i].urls \cap log[i].in_progress = {}
          /\ i < Len(log) /\ log[i + 1].ev = "solve"
    /\ \A i \in At(log, "launch") \cup At(log, "return") : i > 1 /\ log[i - 1].ev = "solve"
    /\ ( /\ ~entry.force
         /\ NumSolves(log) = 2
         /\ SubSeq(log, 1, 2) = <<Event("solve", FALSE, {}, {}, {}),
                                  Event("launch", FALSE, {FeedA}, {}, {})>>
         /\ log[5].ready
         /\ feeds_used \cap RemoteFeeds \subseteq {FeedA}
         /\ network_use # network_offline )
       => /\ pc = "done"
          /\ log = <<Event("solve", FALSE, {}, {}, {}),
                     Event("launch", FALSE, {FeedA}, {}, {}),
                     Event("yield", FALSE, {}, {}, {}),
                     Event("resume", FALSE, {FeedA}, {}, {FeedA}),
                     Event("solve", TRUE, {}, {}, {}),
                     Event("return", TRUE, {}, {}, {})>>
          /\ HandlesCreated(log, 1) = 1

\* The run of scenario B, ended.
C5_Witness ==
    /\ pc = "done"
    /\ ~entry.force
    /\ Len(log) = 6
    /\ log[2] = Event("launch", FALSE, {FeedA}, {}, {})
    /\ log[4] = Event("resume", FALSE, {FeedA}, {}, {FeedA})
    /\ log[5].ready
    /\ cache_feeds[FeedA] # None

\* C6: a call entered off-line does one solve, launches nothing, does not suspend and
\* returns with the readiness of that solve, whatever force is.
C6_OfflineOneSolve ==
    (pc # "idle" /\ entry.offline) => QuickReturn(log[1].ready)

\* A forced call entered off-line returned not ready with a remote feed in use.
C6_Witness ==
    /\ pc = "done"
    /\ entry.offline
    /\ entry.force
    /\ ~log[1].ready
    /\ feeds_used \cap RemoteFeeds # {}
    /\ network_use = network_offline

\* C7: a call entered off-line and not yet warned, whose solve is not ready and uses
\* a remote feed missing from the cache, has met the off-line gate for that feed and
\* set _warned_offline when it returns.
C7_OfflineLoopWarns ==
    ( /\ pc = "done"
      /\ entry.offline
      /\ ~entry.warned
      /\ ~log[1].ready
      /\ FeedA \in feeds_used
      /\ cache_feeds[FeedA] = None )
    => /\ warned_offline
       /\ \E i \in DOMAIN diag : diag[i].url = FeedA

Levels(lv) == {i \in DOMAIN diag : diag[i].level = lv}

\* C8 as first stated: the first suppressed attempt is warned of (the GUI feed: told
\* at info level), every later one is logged at debug level only, none returns a
\* handle, and _warned_offline never goes back to false.
C8_FirstAttemptWarned ==
    /\ [](\A i \in DOMAIN diag :
            /\ i = 1 => diag[i].level = (IF diag[i].url = injector_gui_uri THEN "info"
                                         ELSE "warn")
            /\ i > 1 => diag[i].level = "debug"
            /\ diag[i].returned = None)
    /\ [][warned_offline => warned_offline']_vars

\* C8, amended: the warning is logged at most once, for the first suppressed attempt
\* that is not for the GUI feed; _warned_offline is true from then on and never goes
\* back to false; every suppressed attempt after the warning is logged at debug level;
\* one for the GUI feed before it is logged at info level and leaves the flag alone;
\* no suppressed attempt returns a handle.
C8_WarnedOnce ==
    /\ [](/\ Cardinality(Levels("warn")) <= 1
          /\ warned_offline <=> Levels("warn") # {}
          /\ \A i \in DOMAIN diag :
                /\ diag[i].level =
                      (IF \E j \in Levels("warn") : j < i THEN "debug"
                       ELSE IF diag[i].url = injector_gui_uri THEN "info" ELSE "warn")
                /\ diag[i].returned = None)
    /\ [][warned_offline => warned_offline']_vars

\* The GUI feed was suppressed first, at info level, and then FeedA, with the warning.
C8_Witness ==
    /\ Len(diag) = 2
    /\ diag[1] = [level |-> "info", url |-> injector_gui_uri, returned |-> None]
    /\ diag[2] = [level |-> "warn", url |-> FeedA, returned |-> None]
    /\ warned_offline

\* C9: no operation asks the fetcher for a download while network_use is off-line.
C9_NoFetchOffline == offline_fetch = {}

\* The claim's reading of a recent attempt: one made less than an hour ago.
AttemptedWithinDelay(attempt) == attempt # None /\ now - attempt[1] < FAILED_CHECK_DELAY

\* C10: for a remote feed with a last_modified, with t = now - last_checked (0 when
\* missing) and w = freshness, is_stale is false if w = 0 and otherwise true exactly
\* if t >= w and no check was attempted within the last hour.
C10_StaleIffOldAndNotTried ==
    ( /\ stale_result # None
      /\ stale_result[1].feed # None
      /\ ~startswith(stale_result[1].feed[1].url, "/")
      /\ stale_result[1].feed[1].last_modified # None )
    => LET feed == stale_result[1].feed[1]
           t == now - (IF feed.last_checked = None THEN 0 ELSE feed.last_checked[1])
           w == freshness
       IN stale_result[1].value =
             (IF w = 0 THEN FALSE
              ELSE t >= w /\ ~AttemptedWithinDelay(check_attempts[feed.url]))

\* C11 as first stated: a feed without last_modified is stale whatever its URL is.
C11_NeverFetchedIsStale ==
    ( /\ stale_result # None
      /\ stale_result[1].feed # None
      /\ stale_result[1].feed[1].last_modified = None )
    => stale_result[1].value = TRUE

\* C11, amended: a feed without last_modified is stale exactly if its URL is not a
\* local path, whatever last_checked, the last check attempt and freshness are.
C11_NeverFetchedStaleUnlessLocal ==
    ( /\ stale_result # None
      /\ stale_result[1].feed # None
      /\ stale_result[1].feed[1].last_modified = None )
    => stale_result[1].value = ~startswith(stale_result[1].feed[1].url, "/")

\* is_stale was called for a remote feed never fetched whose timestamps alone would
\* make it fresh, a check having been attempted a second ago.
C11_Witness ==
    /\ stale_result # None
    /\ stale_result[1].feed # None
    /\ stale_result[1].feed[1].url = FeedA
    /\ stale_result[1].feed[1].last_modified = None
    /\ stale_result[1].feed[1].last_checked = Some(now)
    /\ freshness > 0
    /\ check_attempts[FeedA] = Some(now - 1)
    /\ stale_result[1].value = TRUE

\* A URL that is a local path.
IsLocalPath(url) == url[1] = "/"

\* C12: is_stale is false for a feed whose URL is a local path, whatever its
\* timestamps and freshness are; and whatever recalculate and solve_with_downloads
\* calls were made, no local-path feed is in stale_feeds and no download for a
\* local-path URL is in flight, held by the coroutine or launched by its current call.
C12_LocalNeverStaleNorFetched ==
    /\ ( /\ stale_result # None
         /\ stale_result[1].feed # None
         /\ IsLocalPath(stale_result[1].feed[1].url) )
       => stale_result[1].value = FALSE
    /\ \A f \in Feeds :
          IsLocalPath(f) =>
             /\ f \notin stale_feeds
             /\ background[f] = 0
             /\ \A h \in HandleIds : handles[h] # None => handles[h][1].url # f
             /\ f \notin Launched(log) \cup DOMAIN downloads_in_progress
                                       \cup downloads_finished

\* The local feed, old by its timestamps, was in use when recalculate found FeedA
\* stale and when solve_with_downloads launched FeedA, and is_stale was asked of it.
C12_Witness ==
    /\ freshness > 0
    /\ cache_feeds[LocalFeed] = OldFeed(LocalFeed)
    /\ stale_result = Some([feed |-> OldFeed(LocalFeed), value |-> FALSE])
    /\ stale_feeds = {FeedA}
    /\ pc = "waiting"
    /\ Launched(log) = {FeedA}
    /\ LocalFeed \in feeds_used

\* The feeds of used that are not local, are cached with a last_modified and are
\* judged stale by is_stale.
StaleCached(used) ==
    {f \in used : /\ ~IsLocalPath(f)
                  /\ cache_feeds[f] # None
                  /\ cache_feeds[f][1].last_modified # None
                  /\ is_stale(cache_feeds[f])}

\* The feeds of used that are not local and are not cached with a last_modified.
NotCached(used) ==
    {f \in used : /\ ~IsLocalPath(f)
                  /\ \/ cache_feeds[f] = None
                     \/ cache_feeds[f][1].last_modified = None}

\* C13: a call of recalculate leaves in stale_feeds exactly the remote feeds its solve
\* uses that are cached and judged stale by is_stale, whatever stale_feeds held before;
\* on-line a download is started for each of them if fetch_stale is true and for none
\* of them if it is false (the feeds not cached being fetched either way), and
\* off-line none is started.
C13_RecalculateStaleFeeds ==
    [][\A fs \in BOOLEAN :
          (/\ CurrentResult' \in RecalcResults
           /\ \E order \in Orders(feeds_used') : recalculate(fs, CurrentResult', order))
          => /\ stale_feeds' = StaleCached(feeds_used')
             /\ \A f \in Feeds :
                   background'[f] - background[f] =
                      (IF /\ network_use # network_offline
                          /\ \/ f \in NotCached(feeds_used')
                             \/ fs /\ f \in StaleCached(feeds_used')
                       THEN 1 ELSE 0)]_vars

\* On-line, FeedA is cached, old and in use: it is in stale_feeds, and no download of
\* it was started, the call having been made with fetch_stale false; the GUI feed,
\* which was stale before, is not in use any more.
C13_Witness ==
    /\ network_use # network_offline
    /\ cache_feeds[FeedA] = OldFeed(FeedA)
    /\ cache_feeds[injector_gui_uri] = OldFeed(injector_gui_uri)
    /\ check_attempts[FeedA] = None
    /\ feeds_used = {FeedA}
    /\ stale_feeds = {FeedA}
    /\ background[FeedA] = 0
    /\ background[injector_gui_uri] = 1

\* C14: get_implementation raises the 'metadata missing' SafeException for an
\* interface with neither name nor feeds; otherwise, when the selections do not cover
\* the interface, it raises the 'no usable implementation' SafeException naming the
\* interface, with the off-line hint exactly if network_use is off-line; it raises
\* nothing else, and what it returns is an implementation, never None.
C14_TypedErrorOrImplementation ==
    (call_result # None /\ call_result[1].op = "get_implementation") =>
       LET interface == call_result[1].arg[1]
           out == call_result[1].outcome
       IN /\ out.raised \in {None, Some("SafeException")}
          /\ (~TruthyStr(interface.name) /\ ~interface.feeds)
                => out.raised # None /\ out.message = "Need to download"
          /\ ( /\ TruthyStr(interface.name) \/ interface.feeds
               /\ interface.uri \notin DOMAIN selections )
                => /\ out.raised # None
                   /\ out.message = "No usable implementation found"
                   /\ out.offline_hint = (network_use = network_offline)
          /\ out.raised = None => out.value # None /\ out.value[1] # None

\* C15: a call of need_download makes the solver publish one result, returns true
\* exactly if that result is not ready or selects an implementation that get_cached
\* does not find, raises nothing, starts no download and leaves stale_feeds,
\* _warned_offline, root, network_use and freshness as they were.
C15_ProbeOnly ==
    [][\A res \in ProbeResults :
          need_download(res)
          => /\ call_result' =
                   Some(CallRecord("need_download", None,
                        Returned(\/ ~res.ready
                                 \/ \E i \in DOMAIN res.selections :
                                       /\ res.selections[i] # None
                                       /\ ~get_cached(res.selections[i][1]))))
             /\ <<ready', feeds_used', selections'>> =
                   <<res.ready, res.feeds_used, res.selections>>
             /\ UNCHANGED <<stale_feeds, warned_offline, root, network_use, freshness, help_with_testing, constructed,
                            handles, background, diag, offline_fetch, pc,
                            downloads_in_progress>>]_vars

\* need_download returned true for a ready solve that selected an implementation not
\* in the stores, with a stale feed recorded, a download of it in flight and the root
\* changed before it.
C15_Witness ==
    /\ call_result = Some(CallRecord("need_download", None, Returned(TRUE)))
    /\ ready
    /\ ~solver_dirty
    /\ selections = UncachedSelection
    /\ stale_feeds = {FeedA}
    /\ background[FeedA] = 1
    /\ root = injector_gui_uri

\* C17: get_uncached_implementations fails its assertion if an entry of the selections
\* is None and otherwise returns exactly the pairs of an interface and its selected
\* implementation that get_cached does not find, none of them with a None
\* implementation; and need_download, which calls it only when the solver is ready,
\* never fails.
C17_UncachedPairsOrAssertion ==
    /\ (call_result # None /\ call_result[1].op = "get_uncached_implementations") =>
          LET out == call_result[1].outcome IN
          IF \E i \in DOMAIN selections : selections[i] = None
          THEN out.raised = Some("AssertionError")
          ELSE /\ out.raised = None
               /\ out.value[1] = {<<i, selections[i]>> :
                                     i \in {j \in DOMAIN selections :
                                               ~get_cached(selections[j][1])}}
               /\ \A pair \in out.value[1] : pair[2] # None
    /\ (call_result # None /\ call_result[1].op = "need_download") =>
          call_result[1].outcome.raised = None

\* Of two selected implementations the one not in the stores was returned, alone.
C17_Witness ==
    /\ ready
    /\ selections = (FeedA :> Some(UnstoredImpl) @@ injector_gui_uri :> Some(StoredImpl))
    /\ call_result = Some(CallRecord("get_uncached_implementations", None,
                                     Returned({<<FeedA, Some(UnstoredImpl)>>})))

\* The file is missing, does not parse, or one of its three options is missing, is
\* unparsable or, for network_use, is none of the three levels.
Defective(config) ==
    \/ config = NoConfigFile
    \/ ~config[1].parses
    \/ config[1].help_with_testing = None
    \/ getboolean(config[1].help_with_testing[1]) = None
    \/ config[1].network_use = None
    \/ config[1].network_use[1] \notin network_levels
    \/ config[1].freshness = None
    \/ int(config[1].freshness[1]) = None

\* C16: when the configuration is missing or malformed, __init__ leaves network_use
\* one of the three levels and help_with_testing, network_use and freshness at their
\* defaults.
C16_DefectiveConfigGivesDefaults ==
    Defective(constructed.config) =>
        /\ constructed.settings.network_use \in network_levels
        /\ constructed.settings =
              Settings(DefaultHelpWithTesting, network_full, DefaultFreshness)

\* The feeds of downloads_finished that the cache does not hold as just fetched:
\* their download failed.
FailedFinished == {f \in downloads_finished : cache_feeds[f] # FreshFeed(f)}

Published == [ready |-> ready, feeds_used |-> feeds_used, selections |-> selections]

AllInFlight(f) == Cardinality(InFlight(handles, f)) + background[f]

\* C20 as first stated: whatever operation runs while a solve_with_downloads is
\* suspended, no feed URL has two downloads in flight at the same time.
C20_NoConcurrentDuplicates == \A f \in Feeds : AllInFlight(f) <= 1

\* C20, amended: among the downloads of one invocation of solve_with_downloads no
\* feed URL has two in flight: downloads_in_progress holds one handle for each of its
\* URLs, that of a download of this URL, and the invocation holds no other handle
\* not yet completed.
C20_OneInFlightPerInvocation ==
    /\ \A f \in Feeds : Cardinality(InFlight(handles, f)) <= 1
    /\ \A f \in DOMAIN downloads_in_progress :
          /\ handles[downloads_in_progress[f]] # None
          /\ handles[downloads_in_progress[f]][1].url = f
    /\ \A h \in HandleIds :
          handles[h] # None =>
             /\ handles[h][1].url \in DOMAIN downloads_in_progress
             /\ downloads_in_progress[handles[h][1].url] = h

\* While the invocation is suspended with its download of FeedA in flight, another
\* operation has a second download of FeedA in flight.
C20_Witness ==
    /\ pc = "waiting"
    /\ Cardinality(InFlight(handles, FeedA)) = 1
    /\ background[FeedA] = 1

====
